---- MODULE Spec2Model ----
(***************************************************************************)
(* Model of aif-tools: the AIF image container codec.                      *)
(*                                                                         *)
(* Byte buffers are sequences of integers in 0..255.  The C code indexes   *)
(* from 0, sequences from 1: At(buf, i) is the C expression buf[i].        *)
(* An output buffer that the C code fills through a cursor (out, *out_pos) *)
(* is the sequence of the bytes written so far; the cursor is its length.  *)
(***************************************************************************)
EXTENDS Integers, Sequences, FiniteSets, TLC

VARIABLES
    pc,       \* position: "raw" (a row to encode), "packed" (a compressed
              \* row to decode), "done" (decoded)
    origin,   \* "row": comp comes from compress_row; "stream": comp is input
    row,      \* the raw row, width * bpp bytes
    width,    \* pixels per row
    bpp,      \* bytes per pixel
    comp,     \* the compressed row
    row_len,  \* its declared length, a uint16_t
    dec,      \* the decoder state decompress_row ends in
    files,    \* the files at the paths a, b, c: run k of the program reads
              \* files[k] and writes files[k + 1]
    ops,      \* the runs of the program so far, with their outcomes
    ck_file,  \* a file whose checksum is computed and stored
    ck_stored,\* the checksum computed first and stored in ck_file
    ck_calc   \* the checksum computed again after storing

rowvars  == <<origin, row, width, bpp, comp, row_len, dec>>
filevars == <<files, ops>>
sumvars  == <<ck_file, ck_stored, ck_calc>>
vars     == <<pc, rowvars, filevars, sumvars>>

(***************************************************************************)
(* Integer widths of the C types.  uint32_t and size_t values stay far     *)
(* below 2^31 for every input of the model, so they are plain integers;    *)
(* uint8_t and uint16_t conversions are taken modulo U8 and U16.           *)
(***************************************************************************)
U8  == 256
U16 == 65536

At(buf, i) == buf[i + 1]

\* buf[from .. from+n-1] in C indexing
Slice(buf, from, n) == SubSeq(buf, from + 1, from + n)

(***************************************************************************)
(* Row codec: encode                                                       *)
(***************************************************************************)

\* pixels_equal(row + a, row + b, bpp): a and b are byte offsets into buf
pixels_equal(buf, a, b, n) ==
    \A k \in 0..(n - 1) : At(buf, a + k) = At(buf, b + k)

\* The while loop of measure_run leaves with the current run when its
\* condition fails or the break is taken.
measure_run_stops(buf, w, n, start, run) ==
    \/ ~((start + run) < w)
    \/ ~pixels_equal(buf, start * n, (start + run) * n, n)

\* The run returned is the first one, counting up from 1, at which the loop
\* leaves.
measure_run(buf, w, n, start) ==
    CHOOSE run \in 1..(w - start) :
        /\ measure_run_stops(buf, w, n, start, run)
        /\ \A r \in 1..(run - 1) : ~measure_run_stops(buf, w, n, start, r)

\* repeat_chunk with the chunk limit one too low
repeat_chunk_254(remaining) == IF remaining > 254 THEN 254 ELSE remaining % U8

\* (uint8_t) chunk of write_repeat_blocks
repeat_chunk(remaining) == IF remaining > 255 THEN 255 ELSE remaining % U8

RECURSIVE write_repeat_blocks(_, _, _, _)
write_repeat_blocks(pixel, run, n, out) ==
    IF run > 0
    THEN LET chunk == repeat_chunk(run)
         IN  write_repeat_blocks(pixel, run - chunk, n,
                                 out \o <<chunk>> \o pixel)
    ELSE out

\* literal_chunk with the chunk limit one too low
literal_chunk_254(left) == IF left > 254 THEN 254 ELSE left % U8

\* (uint8_t) chunk of write_literal_blocks
literal_chunk(left) == IF left > 255 THEN 255 ELSE left % U8

RECURSIVE write_literal_loop(_, _, _, _, _, _)
write_literal_loop(buf, start, literal_pixels, n, emitted, out) ==
    IF emitted < literal_pixels
    THEN LET chunk == literal_chunk(literal_pixels - emitted)
             base  == (start + emitted) * n
         IN  write_literal_loop(buf, start, literal_pixels, n, emitted + chunk,
                                out \o <<0, chunk>> \o Slice(buf, base, chunk * n))
    ELSE out

\* write_literal_blocks copying from the start of the row, not from start
write_literal_blocks_from0(buf, start, literal_pixels, n, out) ==
    write_literal_loop(buf, 0, literal_pixels, n, 0, out)

write_literal_blocks(buf, start, literal_pixels, n, out) ==
    write_literal_loop(buf, start, literal_pixels, n, 0, out)

\* the inner while loop stopping only at a run of 3 or more
literal_stops_at_run3(buf, w, n, col) ==
    \/ ~(col < w)
    \/ measure_run(buf, w, n, col) >= 3

\* The inner while loop of compress_row stops at the first column, counting
\* up from lit_start + 1, that is the row end or starts a run of 2 or more.
literal_stops(buf, w, n, col) ==
    \/ ~(col < w)
    \/ measure_run(buf, w, n, col) >= 2

literal_end(buf, w, n, lit_start) ==
    CHOOSE col \in (lit_start + 1)..w :
        /\ literal_stops(buf, w, n, col)
        /\ \A c \in (lit_start + 1)..(col - 1) : ~literal_stops(buf, w, n, c)

\* compress_row taking a run of 3 or more, not of 2 or more, for a repeat
RECURSIVE compress_loop_run3(_, _, _, _, _)
compress_loop_run3(buf, w, n, col, out) ==
    IF col < w
    THEN LET run == measure_run(buf, w, n, col)
         IN  IF run >= 3
             THEN compress_loop_run3(buf, w, n, col + run,
                      write_repeat_blocks(Slice(buf, col * n, n), run, n, out))
             ELSE LET lit_end == literal_end(buf, w, n, col)
                  IN  compress_loop_run3(buf, w, n, lit_end,
                          write_literal_blocks(buf, col, lit_end - col, n, out))
    ELSE out

RECURSIVE compress_loop(_, _, _, _, _)
compress_loop(buf, w, n, col, out) ==
    IF col < w
    THEN LET run == measure_run(buf, w, n, col)
         IN  IF run >= 2
             THEN compress_loop(buf, w, n, col + run,
                      write_repeat_blocks(Slice(buf, col * n, n), run, n, out))
             ELSE LET lit_end == literal_end(buf, w, n, col)
                  IN  compress_loop(buf, w, n, lit_end,
                          write_literal_blocks(buf, col, lit_end - col, n, out))
    ELSE out

\* The bytes written to out; the value returned is their number.
compress_row(buf, w, n) == compress_loop(buf, w, n, 0, <<>>)

(***************************************************************************)
(* Row codec: decode.  A decoder state is the pair of cursors of the C     *)
(* code, *cp and *op, with the bytes written to out_row so far (op is      *)
(* their number) and rd, one more than the highest index of comp read.     *)
(***************************************************************************)
Max(a, b) == IF a >= b THEN a ELSE b

\* n copies of the pixel, as the nested for loops of the repeat block write
repeat_pixels(pixel, count, n) ==
    [i \in 1..(count * n) |-> pixel[((i - 1) % n) + 1]]

\* decompress_repeat_block without the check of the room left in the row
decompress_repeat_block_no_room_check(cbuf, rlen, row_bytes, n, st, repeat_count) ==
    IF st.cp + n > rlen
    THEN [st EXCEPT !.ok = FALSE]
    ELSE [ok  |-> TRUE,
          cp  |-> st.cp + n,
          out |-> st.out \o repeat_pixels(Slice(cbuf, st.cp, n), repeat_count, n),
          rd  |-> Max(st.rd, st.cp + n)]

decompress_repeat_block(cbuf, rlen, row_bytes, n, st, repeat_count) ==
    IF st.cp + n > rlen
    THEN [st EXCEPT !.ok = FALSE]
    ELSE LET pixel_buffer == Slice(cbuf, st.cp, n)
             cp1          == st.cp + n
             required     == repeat_count * n
         IN  IF Len(st.out) + required > row_bytes
             THEN [st EXCEPT !.ok = FALSE, !.cp = cp1, !.rd = Max(st.rd, cp1)]
             ELSE [ok  |-> TRUE,
                   cp  |-> cp1,
                   out |-> st.out \o repeat_pixels(pixel_buffer, repeat_count, n),
                   rd  |-> Max(st.rd, cp1)]

\* decompress_literal_block refusing a block that ends at the declared length
decompress_literal_block_tight(cbuf, rlen, row_bytes, n, st) ==
    IF st.cp >= rlen
    THEN [st EXCEPT !.ok = FALSE]
    ELSE LET literal_count == At(cbuf, st.cp)
             cp1           == st.cp + 1
             needed        == literal_count * n
         IN  IF literal_count = 0
             THEN [st EXCEPT !.ok = FALSE, !.cp = cp1, !.rd = Max(st.rd, cp1)]
             ELSE IF cp1 + needed >= rlen
             THEN [st EXCEPT !.ok = FALSE, !.cp = cp1, !.rd = Max(st.rd, cp1)]
             ELSE IF Len(st.out) + needed > row_bytes
             THEN [st EXCEPT !.ok = FALSE, !.cp = cp1, !.rd = Max(st.rd, cp1)]
             ELSE [ok  |-> TRUE,
                   cp  |-> cp1 + needed,
                   out |-> st.out \o Slice(cbuf, cp1, needed),
                   rd  |-> Max(st.rd, cp1 + needed)]

\* decompress_literal_block without the check of a count of 0
decompress_literal_block_zero(cbuf, rlen, row_bytes, n, st) ==
    IF st.cp >= rlen
    THEN [st EXCEPT !.ok = FALSE]
    ELSE LET literal_count == At(cbuf, st.cp)
             cp1           == st.cp + 1
             needed        == literal_count * n
         IN  IF cp1 + needed > rlen
             THEN [st EXCEPT !.ok = FALSE, !.cp = cp1, !.rd = Max(st.rd, cp1)]
             ELSE IF Len(st.out) + needed > row_bytes
             THEN [st EXCEPT !.ok = FALSE, !.cp = cp1, !.rd = Max(st.rd, cp1)]
             ELSE [ok  |-> TRUE,
                   cp  |-> cp1 + needed,
                   out |-> st.out \o Slice(cbuf, cp1, needed),
                   rd  |-> Max(st.rd, cp1 + needed)]

decompress_literal_block(cbuf, rlen, row_bytes, n, st) ==
    IF st.cp >= rlen
    THEN [st EXCEPT !.ok = FALSE]
    ELSE LET literal_count == At(cbuf, st.cp)
             cp1           == st.cp + 1
             needed        == literal_count * n
         IN  IF literal_count = 0
             THEN [st EXCEPT !.ok = FALSE, !.cp = cp1, !.rd = Max(st.rd, cp1)]
             ELSE IF cp1 + needed > rlen
             THEN [st EXCEPT !.ok = FALSE, !.cp = cp1, !.rd = Max(st.rd, cp1)]
             ELSE IF Len(st.out) + needed > row_bytes
             THEN [st EXCEPT !.ok = FALSE, !.cp = cp1, !.rd = Max(st.rd, cp1)]
             ELSE [ok  |-> TRUE,
                   cp  |-> cp1 + needed,
                   out |-> st.out \o Slice(cbuf, cp1, needed),
                   rd  |-> Max(st.rd, cp1 + needed)]

\* decompress_row requiring, after the loop, the whole declared row consumed
RECURSIVE decompress_loop_exhaust(_, _, _, _, _)
decompress_loop_exhaust(cbuf, rlen, row_bytes, n, st) ==
    IF Len(st.out) < row_bytes /\ st.cp < rlen
    THEN LET tag == At(cbuf, st.cp)
             st1 == [st EXCEPT !.cp = st.cp + 1, !.rd = Max(st.rd, st.cp + 1)]
             st2 == IF tag # 0
                    THEN decompress_repeat_block(cbuf, rlen, row_bytes, n, st1, tag)
                    ELSE decompress_literal_block(cbuf, rlen, row_bytes, n, st1)
         IN  IF ~st2.ok
             THEN st2
             ELSE decompress_loop_exhaust(cbuf, rlen, row_bytes, n, st2)
    ELSE [st EXCEPT !.ok = (Len(st.out) = row_bytes /\ st.cp = rlen)]

RECURSIVE decompress_loop(_, _, _, _, _)
decompress_loop(cbuf, rlen, row_bytes, n, st) ==
    IF Len(st.out) < row_bytes /\ st.cp < rlen
    THEN LET tag == At(cbuf, st.cp)
             st1 == [st EXCEPT !.cp = st.cp + 1, !.rd = Max(st.rd, st.cp + 1)]
             st2 == IF tag # 0
                    THEN decompress_repeat_block(cbuf, rlen, row_bytes, n, st1, tag)
                    ELSE decompress_literal_block(cbuf, rlen, row_bytes, n, st1)
         IN  IF ~st2.ok
             THEN st2
             ELSE decompress_loop(cbuf, rlen, row_bytes, n, st2)
    ELSE \* after the loop, the row must be exactly filled
         [st EXCEPT !.ok = (Len(st.out) = row_bytes)]

\* rlen is the uint16_t parameter row_len
decompress_row(cbuf, rlen, row_bytes, n) ==
    decompress_loop(cbuf, rlen, row_bytes, n,
                    [ok |-> TRUE, cp |-> 0, out |-> <<>>, rd |-> 0])

(***************************************************************************)
(* Header model (aif.h) and checksum.                                      *)
(***************************************************************************)
AIF_CHECKSUM_OFFSET    == 4
AIF_PXL_FMT_OFFSET     == 6
AIF_COMPRESSION_OFFSET == 7
AIF_WIDTH_OFFSET       == 8
AIF_HEIGHT_OFFSET      == 12
AIF_PXL_OFFSET_OFFSET  == 16
AIF_HEADER_SIZE        == 20
AIF_FMT_RGB8           == 1
AIF_FMT_GRAY8          == 2
AIF_COMPRESSION_NONE   == 0
AIF_COMPRESSION_RLE    == 1

\* the value at buf[off], buf[off + 1], little-endian
read_le_u16(buf, off) == At(buf, off) + At(buf, off + 1) * 256

read_le_u32(buf, off) ==
    At(buf, off) + At(buf, off + 1) * 256 + At(buf, off + 2) * 65536
        + At(buf, off + 3) * 16777216

\* aif_magic_valid comparing from the second byte
aif_magic_valid_tail(h) ==
    At(h, 1) = 73 /\ At(h, 2) = 70 /\ At(h, 3) = 0

aif_magic_valid(h) ==
    At(h, 0) = 65 /\ At(h, 1) = 73 /\ At(h, 2) = 70 /\ At(h, 3) = 0

aif_format_valid(format) == format = AIF_FMT_RGB8 \/ format = AIF_FMT_GRAY8

aif_dim_valid(n) == n > 0

\* checksum_byte treating only the first byte of the checksum field as 0
checksum_byte_first(f, pos, sums) ==
    LET byte == IF pos = AIF_CHECKSUM_OFFSET THEN 0 ELSE At(f, pos)
        sum1 == (sums[1] + byte) % 256
        sum2 == (sums[2] + sum1) % 256
    IN  <<sum1, sum2>>

\* the body of the for loop of compute_checksum at pos, on the sums so far
checksum_byte(f, pos, sums) ==
    LET byte == IF pos = AIF_CHECKSUM_OFFSET \/ pos = AIF_CHECKSUM_OFFSET + 1
                THEN 0
                ELSE At(f, pos)
        sum1 == (sums[1] + byte) % 256
        sum2 == (sums[2] + sum1) % 256
    IN  <<sum1, sum2>>

\* the for loop over pos = lo .. hi - 1, in that order; the range is halved
\* so that the evaluation does not nest once per byte
RECURSIVE checksum_loop(_, _, _, _)
checksum_loop(f, lo, hi, sums) ==
    IF hi <= lo THEN sums
    ELSE IF hi = lo + 1 THEN checksum_byte(f, lo, sums)
    ELSE LET mid  == lo + ((hi - lo) \div 2)
             left == checksum_loop(f, lo, mid, sums)
         IN  IF left[1] >= 0 THEN checksum_loop(f, mid, hi, left) ELSE left

EOF_EXIT == -1

\* the checksum of the first file_size bytes of f, or EOF_EXIT when fgetc
\* meets the end of the file before that (the program then exits)
compute_checksum(f, file_size) ==
    IF file_size > Len(f)
    THEN EOF_EXIT
    ELSE LET sums == checksum_loop(f, 0, file_size, <<0, 0>>)
         IN  sums[2] * 256 + sums[1]

(***************************************************************************)
(* Image codec.  A file is the sequence of its bytes; NoFile stands for a  *)
(* path at which there is no file.  An operation ends in a record of its   *)
(* outcome ("ok", or the exit it took), the content of its output path     *)
(* afterwards, and nread, the number of bytes of the input file it read.   *)
(***************************************************************************)
NoFile == <<-1>>

\* the cast (int) of a size_t and the uint8_t / uint16_t conversions never
\* wrap below: every size of the model is far smaller than 2^31

\* the buffer of one tag byte more a pixel than the row
max_row_one_tag(w, n) == w * (n + 1)

\* size of the buffer compress_row writes into: max_row = width * (bpp + 2)
max_row(w, n) == w * (n + 2)

\* aif_write_compressed_rows: the bytes written to out and the total returned
RECURSIVE write_rows_loop(_, _, _, _, _, _)
write_rows_loop(pixels, w, h, n, r, acc) ==
    IF r < h
    THEN LET row_bytes == w * n
             buffer    == compress_row(Slice(pixels, r * row_bytes, row_bytes), w, n)
             comp_len  == Len(buffer)
             len_bytes == <<comp_len % 256, (comp_len \div 256) % 256>>
         IN  write_rows_loop(pixels, w, h, n, r + 1,
                 [bytes |-> acc.bytes \o len_bytes \o buffer,
                  total |-> acc.total + 2 + comp_len])
    ELSE acc

aif_write_compressed_rows(pixels, w, h, n) ==
    write_rows_loop(pixels, w, h, n, 0, [bytes |-> <<>>, total |-> 0])

\* aif_decompress_image on the file f read from position pos
RECURSIVE decompress_image_loop(_, _, _, _, _, _, _)
decompress_image_loop(f, w, h, n, r, pos, pixels) ==
    IF r < h
    THEN IF Len(f) - pos < 2
         THEN [outcome |-> "unexpected_eof", pixels |-> pixels, nread |-> Len(f)]
         ELSE LET rlen == read_le_u16(f, pos)
                  pos1 == pos + 2
              IN  IF Len(f) - pos1 < rlen
                  THEN [outcome |-> "unexpected_eof", pixels |-> pixels,
                        nread |-> Len(f)]
                  ELSE LET d == decompress_row(Slice(f, pos1, rlen), rlen, w * n, n)
                       IN  IF ~d.ok
                           THEN [outcome |-> "invalid_data", pixels |-> pixels,
                                 nread |-> pos1 + rlen]
                           ELSE decompress_image_loop(f, w, h, n, r + 1,
                                    pos1 + rlen, pixels \o d.out)
    ELSE [outcome |-> "ok", pixels |-> pixels, nread |-> pos]

aif_decompress_image(f, w, h, n) ==
    decompress_image_loop(f, w, h, n, 0, AIF_HEADER_SIZE, <<>>)

\* aif_open_and_read_header
aif_open_and_read_header(f) ==
    IF f = NoFile
    THEN [outcome |-> "open_failed", nread |-> 0]
    ELSE IF Len(f) < AIF_HEADER_SIZE
    THEN [outcome |-> "unexpected_eof", nread |-> Len(f)]
    ELSE [outcome |-> "ok", nread |-> AIF_HEADER_SIZE]

\* "Load pixels, expanding compressed input if needed"
load_pixels(f, compression, w, h, n) ==
    IF compression = AIF_COMPRESSION_NONE
    THEN LET pixel_bytes == n * w * h
         IN  IF Len(f) - AIF_HEADER_SIZE < pixel_bytes
             THEN [outcome |-> "unexpected_eof", pixels |-> <<>>, nread |-> Len(f)]
             ELSE [outcome |-> "ok",
                   pixels |-> Slice(f, AIF_HEADER_SIZE, pixel_bytes),
                   nread |-> AIF_HEADER_SIZE + pixel_bytes]
    ELSE aif_decompress_image(f, w, h, n)

bytes_per_pixel(pixel_format) == IF pixel_format = AIF_FMT_RGB8 THEN 3 ELSE 1

\* header with the checksum stored little-endian in its checksum field
store_checksum(header, checksum) ==
    [header EXCEPT ![AIF_CHECKSUM_OFFSET + 1] = checksum % 256,
                   ![AIF_CHECKSUM_OFFSET + 2] = (checksum \div 256) % 256]

\* write_output with the checksum taken over the header alone
write_output_header_only(header, data, data_bytes, nread) ==
    LET written  == header \o data
        checksum == compute_checksum(written, AIF_HEADER_SIZE)
    IN  [outcome |-> "ok",
         out |-> store_checksum(header, checksum) \o data,
         nread |-> nread]

\* The output file: header and data are written, the file is reopened, its
\* checksum computed over AIF_HEADER_SIZE + data_bytes bytes and the header
\* written again with the checksum in it.
write_output(header, data, data_bytes, nread) ==
    LET written  == header \o data
        checksum == compute_checksum(written, AIF_HEADER_SIZE + data_bytes)
    IN  IF checksum = EOF_EXIT
        THEN [outcome |-> "unexpected_eof", out |-> written, nread |-> nread]
        ELSE [outcome |-> "ok",
              out |-> store_checksum(header, checksum) \o data,
              nread |-> nread]

\* The header checks of the mutating stages, in the order the stage makes
\* them: stage2_brighten and stage5_compress check the dimensions before the
\* compression, stage3_convert_color the compression first, and
\* stage4_decompress does not check the compression.  The value names the
\* check at which the stage exits with "... is not a valid AIF file."
validate_header(header, order) ==
    LET pixel_format == At(header, AIF_PXL_FMT_OFFSET)
        compression  == At(header, AIF_COMPRESSION_OFFSET)
        w            == read_le_u32(header, AIF_WIDTH_OFFSET)
        h            == read_le_u32(header, AIF_HEIGHT_OFFSET)
        bad_compression == compression # AIF_COMPRESSION_NONE
                               /\ compression # AIF_COMPRESSION_RLE
        bad_dims     == ~aif_dim_valid(w) \/ ~aif_dim_valid(h)
    IN  IF ~aif_magic_valid(header) THEN "invalid_magic"
        ELSE IF ~aif_format_valid(pixel_format) THEN "invalid_format"
        ELSE IF order = "compression_first" /\ bad_compression
        THEN "invalid_compression"
        ELSE IF bad_dims THEN "invalid_dims"
        ELSE IF order = "dims_first" /\ bad_compression
        THEN "invalid_compression"
        ELSE "ok"

\* Exit when the output file was opened for writing before the input was read
Exit_output_opened(outcome, old, nread) ==
    [outcome |-> outcome, out |-> <<>>, nread |-> nread]

Exit(outcome, old, nread) == [outcome |-> outcome, out |-> old, nread |-> nread]

\* stage5_compress(in_file, out_file); old is the output path before
stage5_compress(f, old) ==
    LET o == aif_open_and_read_header(f)
    IN  IF o.outcome # "ok" THEN Exit(o.outcome, old, o.nread)
        ELSE
        LET header       == Slice(f, 0, AIF_HEADER_SIZE)
            pixel_format == At(header, AIF_PXL_FMT_OFFSET)
            compression  == At(header, AIF_COMPRESSION_OFFSET)
            w            == read_le_u32(header, AIF_WIDTH_OFFSET)
            h            == read_le_u32(header, AIF_HEIGHT_OFFSET)
            valid        == validate_header(header, "dims_first")
        IN  IF valid # "ok" THEN Exit(valid, old, o.nread)
            ELSE
            LET n  == bytes_per_pixel(pixel_format)
                ld == load_pixels(f, compression, w, h, n)
            IN  IF ld.outcome # "ok" THEN Exit(ld.outcome, old, ld.nread)
                ELSE
                LET header1 == [header EXCEPT ![AIF_COMPRESSION_OFFSET + 1] =
                                                  AIF_COMPRESSION_RLE]
                    rows    == aif_write_compressed_rows(ld.pixels, w, h, n)
                IN  write_output(header1, rows.bytes, rows.total, ld.nread)

\* stage4_decompress(in_file, out_file)
stage4_decompress(f, old) ==
    LET o == aif_open_and_read_header(f)
    IN  IF o.outcome # "ok" THEN Exit(o.outcome, old, o.nread)
        ELSE
        LET header       == Slice(f, 0, AIF_HEADER_SIZE)
            pixel_format == At(header, AIF_PXL_FMT_OFFSET)
            w            == read_le_u32(header, AIF_WIDTH_OFFSET)
            h            == read_le_u32(header, AIF_HEIGHT_OFFSET)
            valid        == validate_header(header, "no_compression")
        IN  IF valid # "ok" THEN Exit(valid, old, o.nread)
            ELSE
            LET n  == bytes_per_pixel(pixel_format)
                ld == aif_decompress_image(f, w, h, n)
            IN  IF ld.outcome # "ok" THEN Exit(ld.outcome, old, ld.nread)
                ELSE
                LET total_bytes == w * n * h
                    header1 == [header EXCEPT ![AIF_COMPRESSION_OFFSET + 1] =
                                                  AIF_COMPRESSION_NONE]
                IN  write_output(header1, ld.pixels, total_bytes, ld.nread)

(***************************************************************************)
(* Pixel transforms.                                                       *)
(***************************************************************************)
\* C integer division, which truncates toward zero (b > 0)
TruncDiv(a, b) == IF a >= 0 THEN a \div b ELSE -((-a) \div b)

Clamp255(v) == IF v > 255 THEN 255 ELSE IF v < 0 THEN 0 ELSE v

\* GRAY8: val = val + (val * amount / 100), clamped
brighten_gray(val, amount) == Clamp255(val + TruncDiv(val * amount, 100))

Max3(p) == Max(p[1], Max(p[2], p[3]))
Min3(p) == -Max(-p[1], Max(-p[2], -p[3]))

\* brighten_rgb computes, for a component v of a pixel with brightest and
\* darkest components mx and mn, v + (mx + mn) * amount / 200 in double
\* arithmetic and truncates it to an int16_t.  num is 200 times the exact
\* value.  Where the exact value is an integer k, rounding in the double
\* operations can leave the result just below k, which truncates to k - 1:
\* both are outcomes, chosen by down.
rgb_num(v, mx, mn, amount) == 200 * v + (mx + mn) * amount

rgb_ambiguous(v, mx, mn, amount) ==
    LET num == rgb_num(v, mx, mn, amount)
    IN  num % 200 = 0 /\ (num \div 200) \in 1..255

brighten_rgb_component(v, mx, mn, amount, down) ==
    LET num     == rgb_num(v, mx, mn, amount)
        new_val == IF rgb_ambiguous(v, mx, mn, amount) /\ down
                   THEN (num \div 200) - 1
                   ELSE TruncDiv(num, 200)
    IN  Clamp255(new_val)

\* the component of pixels at byte i (from 0) with the brightest and the
\* darkest component of its pixel: what the result at i is computed from
rgb_operands(pixels, i) ==
    LET p == Slice(pixels, i - (i % 3), 3)
    IN  <<At(pixels, i), Max3(p), Min3(p)>>

\* the operands in the pixel buffer for which the result has two outcomes
rgb_ambiguous_at(pixels, amount) ==
    {x \in {rgb_operands(pixels, i) : i \in 0..(Len(pixels) - 1)} :
        rgb_ambiguous(x[1], x[2], x[3], amount)}

\* "Apply brighten to raw pixels"; down is the set of operands for which the
\* double arithmetic ends below the integer (the same operands give the same
\* result wherever they occur)
brighten_pixels(pixels, pixel_format, amount, down) ==
    IF pixel_format = AIF_FMT_GRAY8
    THEN [i \in 1..Len(pixels) |-> brighten_gray(pixels[i], amount)]
    ELSE [i \in 1..Len(pixels) |->
             LET x == rgb_operands(pixels, i - 1)
             IN  brighten_rgb_component(x[1], x[2], x[3], amount, x \in down)]

\* RGB -> GRAY, one byte a pixel
rgb_to_gray(pixels, count) ==
    [j \in 1..count |->
        LET r == At(pixels, 3 * (j - 1))
            g == At(pixels, 3 * (j - 1) + 1)
            b == At(pixels, 3 * (j - 1) + 2)
        IN  ((r * 299 + g * 587 + b * 114) \div 1000) % U8]

\* GRAY -> RGB, the byte three times
gray_to_rgb(pixels, in_size) ==
    [j \in 1..(3 * in_size) |-> At(pixels, (j - 1) \div 3)]

\* "Write output file": raw pixels, or compressed rows, after the header
write_pixels(header, pixels, compression, w, h, n, nread) ==
    IF compression = AIF_COMPRESSION_NONE
    THEN write_output(header, pixels, Len(pixels), nread)
    ELSE LET rows == aif_write_compressed_rows(pixels, w, h, n)
         IN  write_output(header, rows.bytes, rows.total, nread)

\* stage2_brighten(amount, in_file, out_file)
stage2_brighten(amount, f, old, down) ==
    LET o == aif_open_and_read_header(f)
    IN  IF o.outcome # "ok" THEN Exit(o.outcome, old, o.nread)
        ELSE
        LET header       == Slice(f, 0, AIF_HEADER_SIZE)
            pixel_format == At(header, AIF_PXL_FMT_OFFSET)
            compression  == At(header, AIF_COMPRESSION_OFFSET)
            w            == read_le_u32(header, AIF_WIDTH_OFFSET)
            h            == read_le_u32(header, AIF_HEIGHT_OFFSET)
            valid        == validate_header(header, "dims_first")
        IN  IF valid # "ok" THEN Exit(valid, old, o.nread)
            ELSE
            LET n  == bytes_per_pixel(pixel_format)
                ld == load_pixels(f, compression, w, h, n)
            IN  IF ld.outcome # "ok" THEN Exit(ld.outcome, old, ld.nread)
                ELSE
                LET pixel_data == brighten_pixels(ld.pixels, pixel_format,
                                                  amount, down)
                    header1 == [header EXCEPT ![AIF_COMPRESSION_OFFSET + 1] =
                                                  compression]
                IN  write_pixels(header1, pixel_data, compression, w, h, n,
                                 ld.nread)

\* the outcomes of the double arithmetic stage2_brighten has on the file
brighten_choices(amount, f) ==
    LET o == aif_open_and_read_header(f)
    IN  IF o.outcome # "ok" THEN {{}}
        ELSE
        LET header       == Slice(f, 0, AIF_HEADER_SIZE)
            pixel_format == At(header, AIF_PXL_FMT_OFFSET)
            ld == load_pixels(f, At(header, AIF_COMPRESSION_OFFSET),
                              read_le_u32(header, AIF_WIDTH_OFFSET),
                              read_le_u32(header, AIF_HEIGHT_OFFSET),
                              bytes_per_pixel(pixel_format))
        IN  IF validate_header(header, "dims_first") # "ok" \/ ld.outcome # "ok"
                \/ pixel_format # AIF_FMT_RGB8
            THEN {{}}
            ELSE SUBSET rgb_ambiguous_at(ld.pixels, amount)

\* stage3_convert_color(color, in_file, out_file)
stage3_convert_color(color, f, old) ==
    LET o == aif_open_and_read_header(f)
    IN  IF o.outcome # "ok" THEN Exit(o.outcome, old, o.nread)
        ELSE
        LET header       == Slice(f, 0, AIF_HEADER_SIZE)
            pixel_format == At(header, AIF_PXL_FMT_OFFSET)
            compression  == At(header, AIF_COMPRESSION_OFFSET)
            w            == read_le_u32(header, AIF_WIDTH_OFFSET)
            h            == read_le_u32(header, AIF_HEIGHT_OFFSET)
            valid        == validate_header(header, "compression_first")
        IN  IF valid # "ok" THEN Exit(valid, old, o.nread)
            ELSE
            LET target_fmt == IF color = "gray8" THEN AIF_FMT_GRAY8
                              ELSE AIF_FMT_RGB8
                in_bpp  == bytes_per_pixel(pixel_format)
                in_size == in_bpp * w * h
                ld      == load_pixels(f, compression, w, h, in_bpp)
            IN  IF ld.outcome # "ok" THEN Exit(ld.outcome, old, ld.nread)
                ELSE
                LET to_gray == pixel_format = AIF_FMT_RGB8
                                   /\ target_fmt = AIF_FMT_GRAY8
                    to_rgb  == pixel_format = AIF_FMT_GRAY8
                                   /\ target_fmt = AIF_FMT_RGB8
                    out_bpp == IF to_gray THEN 1 ELSE IF to_rgb THEN 3
                               ELSE in_bpp
                    out_pixels == IF to_gray THEN rgb_to_gray(ld.pixels, w * h)
                                  ELSE IF to_rgb
                                  THEN gray_to_rgb(ld.pixels, in_size)
                                  ELSE ld.pixels
                    out_fmt == IF to_gray THEN AIF_FMT_GRAY8
                               ELSE IF to_rgb THEN AIF_FMT_RGB8
                               ELSE pixel_format
                    header1 == [header EXCEPT
                                   ![AIF_PXL_FMT_OFFSET + 1] = out_fmt,
                                   ![AIF_COMPRESSION_OFFSET + 1] = compression]
                IN  write_pixels(header1, out_pixels, compression, w, h,
                                 out_bpp, ld.nread)

(***************************************************************************)
(* stage1_info: the report printed for each file of the batch, in order.   *)
(***************************************************************************)
aif_compression_name(compression) ==
    IF compression = AIF_COMPRESSION_NONE THEN "none"
    ELSE IF compression = AIF_COMPRESSION_RLE
    THEN "run-length encoding compressed"
    ELSE "NULL"

info_report(f) ==
    LET header          == Slice(f, 0, AIF_HEADER_SIZE)
        stored_checksum == read_le_u16(header, AIF_CHECKSUM_OFFSET)
        pixel_format    == At(header, AIF_PXL_FMT_OFFSET)
        compression     == At(header, AIF_COMPRESSION_OFFSET)
        w               == read_le_u32(header, AIF_WIDTH_OFFSET)
        h               == read_le_u32(header, AIF_HEIGHT_OFFSET)
        calc_checksum   == compute_checksum(f, Len(f))
    IN  [file_size   |-> Len(f),
         magic_ok    |-> aif_magic_valid(header),
         stored      |-> stored_checksum,
         calculated  |-> calc_checksum,
         checksum_ok |-> calc_checksum = stored_checksum,
         format_ok   |-> aif_format_valid(pixel_format),
         compression |-> aif_compression_name(compression),
         width       |-> w,
         width_ok    |-> aif_dim_valid(w),
         height      |-> h,
         height_ok   |-> aif_dim_valid(h)]

\* The loop over the files.  It ends in "ok" after the last file, or in the
\* exit it took at file i; nread is what it read of the last file it opened:
\* the header, then the whole file again for the checksum.
RECURSIVE info_loop(_, _, _)
info_loop(batch, i, reports) ==
    IF i > Len(batch)
    THEN [outcome |-> "ok", reports |-> reports,
          nread |-> IF batch = <<>> THEN 0 ELSE Len(batch[Len(batch)])]
    ELSE LET o == aif_open_and_read_header(batch[i])
         IN  IF o.outcome # "ok"
             THEN [outcome |-> o.outcome, reports |-> reports, nread |-> o.nread]
             ELSE info_loop(batch, i + 1, Append(reports, info_report(batch[i])))

stage1_info(batch) == info_loop(batch, 1, <<>>)

(***************************************************************************)
(* Inputs of the row codec.                                                *)
(***************************************************************************)
MaxWidth == 5
MaxComp  == 5

GrayBytes == {0, 10, 50}
RGBPixels == {<<10, 10, 10>>, <<10, 10, 50>>, <<50, 10, 10>>, <<0, 0, 0>>}
CompBytes == {0, 1, 2, 3, 10, 50}

RECURSIVE Flatten(_)
Flatten(ps) == IF ps = <<>> THEN <<>> ELSE Head(ps) \o Flatten(Tail(ps))

SeqsOf(S, n) == [1..n -> S]

\* every row of w pixels over the pixel values of the model
Rows(w, n) ==
    IF n = 1
    THEN SeqsOf(GrayBytes, w)
    ELSE {Flatten(ps) : ps \in SeqsOf(RGBPixels, w)}

Streams == UNION {SeqsOf(CompBytes, k) : k \in 0..MaxComp}

NoDec == [ok |-> FALSE, cp |-> 0, out |-> <<>>, rd |-> 0]

\* the values of the variables a specification does not use
NoRows  == /\ origin = "none" /\ row = <<>> /\ width = 0 /\ bpp = 0
           /\ comp = <<>> /\ row_len = 0 /\ dec = NoDec
NoFiles == files = <<>> /\ ops = <<>>
NoSums  == ck_file = <<>> /\ ck_stored = 0 /\ ck_calc = 0

InitRaw ==
    /\ pc = "raw"
    /\ origin = "row"
    /\ width \in 1..MaxWidth
    /\ bpp \in {1, 3}
    /\ row \in Rows(width, bpp)
    /\ comp = <<>>
    /\ row_len = 0
    /\ dec = NoDec
    /\ NoFiles /\ NoSums

\* a compressed row as aif_decompress_image hands it to decompress_row:
\* row_len bytes read into a buffer of row_len bytes
InitStream ==
    /\ pc = "packed"
    /\ origin = "stream"
    /\ width \in 1..MaxWidth
    /\ bpp \in {1, 3}
    /\ row = <<>>
    /\ comp \in Streams
    /\ row_len = Len(comp)
    /\ dec = NoDec
    /\ NoFiles /\ NoSums

InitRow == InitRaw \/ InitStream

\* compress_row on the row; its length goes on as the uint16_t row_len
CompressRow ==
    /\ pc = "raw"
    /\ comp' = compress_row(row, width, bpp)
    /\ row_len' = Len(comp') % U16
    /\ pc' = "packed"
    /\ UNCHANGED <<origin, row, width, bpp, dec, filevars, sumvars>>

\* decompress_row with row_bytes = width * bpp
DecompressRow ==
    /\ pc = "packed"
    /\ dec' = decompress_row(comp, row_len, width * bpp, bpp)
    /\ pc' = "done"
    /\ UNCHANGED <<origin, row, width, bpp, comp, row_len, filevars, sumvars>>

NextRow == CompressRow \/ DecompressRow

SpecRow == InitRow /\ [][NextRow]_vars

(***************************************************************************)
(* Long rows: more than 255 pixels, so that runs and literal stretches are *)
(* split.  A long row repeats a cycle of 1, 2 or 3 pixel values.           *)
(***************************************************************************)
MaxLong == 515

LongWidths == 256..MaxLong

GrayCycles == {<<(<<10>>)>>, <<(<<0>>)>>,
               <<(<<10>>), (<<50>>)>>,
               <<(<<0>>), (<<10>>), (<<50>>)>>}
RGBCycles  == {<<(<<10, 10, 10>>)>>, <<(<<0, 0, 0>>)>>,
               <<(<<10, 10, 10>>), (<<10, 10, 50>>)>>,
               <<(<<10, 10, 10>>), (<<10, 10, 50>>), (<<50, 10, 10>>)>>}

CycleRow(cyc, w, n) ==
    [i \in 1..(w * n) |-> cyc[(((i - 1) \div n) % Len(cyc)) + 1][((i - 1) % n) + 1]]

InitLong ==
    /\ pc = "raw"
    /\ origin = "row"
    /\ width \in LongWidths
    /\ bpp \in {1, 3}
    /\ row \in {CycleRow(cyc, width, bpp) :
                   cyc \in IF bpp = 1 THEN GrayCycles ELSE RGBCycles}
    /\ comp = <<>>
    /\ row_len = 0
    /\ dec = NoDec
    /\ NoFiles /\ NoSums

SpecLong == InitLong /\ [][NextRow]_vars

(***************************************************************************)
(* Mixed rows: a row made of up to MaxSegs segments, each a single pixel,  *)
(* a pair or 256 copies of a pixel value, so that literal blocks of one    *)
(* pixel, runs of two and runs split after 255 pixels meet in one row.     *)
(***************************************************************************)
MaxSegs == 3

SegLens == {1, 2, 256}

SegPixels(n) == IF n = 1 THEN {<<10>>, <<50>>}
                ELSE {<<10, 10, 10>>, <<10, 10, 50>>}

RECURSIVE SegRow(_)
SegRow(segs) ==
    IF segs = <<>> THEN <<>>
    ELSE LET s == Head(segs)
         IN  [i \in 1..(s.len * Len(s.pixel)) |->
                 s.pixel[((i - 1) % Len(s.pixel)) + 1]] \o SegRow(Tail(segs))

InitMixed ==
    /\ pc = "raw"
    /\ origin = "row"
    /\ bpp \in {1, 3}
    /\ \E k \in 1..MaxSegs :
           \E segs \in [1..k -> [pixel : SegPixels(bpp), len : SegLens]] :
               row = SegRow(segs)
    /\ width = Len(row) \div bpp
    /\ comp = <<>>
    /\ row_len = 0
    /\ dec = NoDec
    /\ NoFiles /\ NoSums

\* short rows of every content, and mixed rows
SpecMixed == (InitRaw \/ InitMixed) /\ [][NextRow]_vars

\* the rows of every kind: short, mixed and long
SpecEncode == (InitRaw \/ InitMixed \/ InitLong) /\ [][NextRow]_vars

(***************************************************************************)
(* Wide rows: RGB8 rows with no two adjacent pixels equal, wide enough for *)
(* the compressed row to reach 65536 bytes (3 bytes a pixel and 2 bytes a  *)
(* literal block of 255 pixels).                                           *)
(***************************************************************************)
MinWide == 21788
MaxWide == 21789

WideRow(w) ==
    [i \in 1..(w * 3) |->
        LET p == (i - 1) \div 3
            k == (i - 1) % 3
        IN  IF k = 0 THEN p % 256 ELSE IF k = 1 THEN (p \div 256) % 256 ELSE 7]

InitWideRow ==
    /\ pc = "raw"
    /\ origin = "row"
    /\ width \in MinWide..MaxWide
    /\ bpp = 3
    /\ row = WideRow(width)
    /\ comp = <<>>
    /\ row_len = 0
    /\ dec = NoDec
    /\ NoFiles /\ NoSums

\* rows of every width of the model, from 1 pixel to the wide rows
SpecWide == (InitRaw \/ InitWideRow) /\ [][NextRow]_vars

(***************************************************************************)
(* The checksum of a file and its storing: what every mutating stage does  *)
(* last (compute the checksum of the file written, put it in the header,   *)
(* little-endian, and write the header again).                             *)
(***************************************************************************)
MaxSumLen == 8

SumBytes == {0, 3, 200}

InitSum ==
    /\ pc = "file"
    /\ ck_file \in UNION {SeqsOf(SumBytes, k) : k \in 6..MaxSumLen}
    /\ ck_stored = 0
    /\ ck_calc = 0
    /\ NoRows /\ NoFiles

ComputeChecksum ==
    /\ pc = "file"
    /\ ck_stored' = compute_checksum(ck_file, Len(ck_file))
    /\ pc' = "computed"
    /\ UNCHANGED <<ck_file, ck_calc, rowvars, filevars>>

StoreChecksum ==
    /\ pc = "computed"
    /\ ck_file' = store_checksum(ck_file, ck_stored)
    /\ pc' = "stored"
    /\ UNCHANGED <<ck_stored, ck_calc, rowvars, filevars>>

RecomputeChecksum ==
    /\ pc = "stored"
    /\ ck_calc' = compute_checksum(ck_file, Len(ck_file))
    /\ pc' = "verified"
    /\ UNCHANGED <<ck_file, ck_stored, rowvars, filevars>>

NextSum == ComputeChecksum \/ StoreChecksum \/ RecomputeChecksum

SpecSum == InitSum /\ [][NextSum]_vars

(***************************************************************************)
(* Files.  An input file is a well-formed file of a small image, with up   *)
(* to MaxFaults faults put in.                                             *)
(***************************************************************************)
MaxDim    == 2
MaxFaults == 2

le16(v) == <<v % 256, (v \div 256) % 256>>
le32(v) == <<v % 256, (v \div 256) % 256, (v \div 65536) % 256, v \div 16777216>>

MagicAIF == <<65, 73, 70, 0>>
MagicXIF == <<88, 73, 70, 0>>

Header(magic, checksum, format, compression, w, h) ==
    magic \o le16(checksum) \o <<format, compression>> \o le32(w) \o le32(h)
        \o le32(AIF_HEADER_SIZE)

\* the pixel data of an image as its file holds it
Content(pixels, compression, w, h, n) ==
    IF compression = AIF_COMPRESSION_RLE
    THEN aif_write_compressed_rows(pixels, w, h, n).bytes
    ELSE pixels

\* the pixel buffers of the w * h images of the model: every buffer when it
\* has at most MaxWidth pixels, buffers that repeat a cycle above that
Images(w, h, n) ==
    IF w * h <= MaxWidth
    THEN Rows(w * h, n)
    ELSE {CycleRow(cyc, w * h, n) :
             cyc \in IF n = 1 THEN GrayCycles ELSE RGBCycles}

\* the pixel buffers of the files that get faults: cycles only
FewImages(w, h, n) ==
    {CycleRow(cyc, w * h, n) : cyc \in IF n = 1 THEN GrayCycles ELSE RGBCycles}

Faults == {"magic", "format", "compression", "other_compression", "width0",
           "height0", "checksum", "truncated", "short_header", "bad_block"}

FaultSets == {F \in SUBSET Faults : Cardinality(F) <= MaxFaults}

\* the faults of the pixel data: its last byte missing, its third byte 0
Truncated(full, F) ==
    IF "truncated" \in F /\ Len(full) > 0
    THEN SubSeq(full, 1, Len(full) - 1) ELSE full

BadBlock(cut, F) ==
    IF "bad_block" \in F /\ Len(cut) >= 3 THEN [cut EXCEPT ![3] = 0] ELSE cut

\* header and content with the checksum of the file, or another value, in
\* the header
Sealed(header, content, F) ==
    LET sum == compute_checksum(header \o content, Len(header) + Len(content))
    IN  store_checksum(header, IF "checksum" \in F THEN (sum + 1) % U16 ELSE sum)
            \o content

ShortHeader(file, F) ==
    IF "short_header" \in F THEN SubSeq(file, 1, 18) ELSE file

\* the file of the image with the faults F
FaultyFile(pixels, format, compression, w, h, F) ==
    ShortHeader(
        Sealed(Header(IF "magic" \in F THEN MagicXIF ELSE MagicAIF, 0,
                      IF "format" \in F THEN 3 ELSE format,
                      IF "compression" \in F THEN 2
                      ELSE IF "other_compression" \in F THEN 1 - compression
                      ELSE compression,
                      IF "width0" \in F THEN 0 ELSE w,
                      IF "height0" \in F THEN 0 ELSE h),
               BadBlock(Truncated(Content(pixels, compression, w, h,
                                          bytes_per_pixel(format)), F), F),
               F),
        F)

ImageFiles(format, w, h) ==
    {FaultyFile(pixels, format, compression, w, h, F) :
        pixels \in FewImages(w, h, bytes_per_pixel(format)),
        compression \in {AIF_COMPRESSION_NONE, AIF_COMPRESSION_RLE},
        F \in FaultSets}

InputFiles ==
    UNION {ImageFiles(format, dims[1], dims[2]) :
              format \in {AIF_FMT_RGB8, AIF_FMT_GRAY8},
              dims \in (1..MaxDim) \X (1..MaxDim)}

\* what the output path may hold before a run
StaleFile == <<9, 9>>

\* the other files a batch given to info may hold, by name
Companion(name) ==
    IF name = "good"
    THEN FaultyFile(<<10>>, AIF_FMT_GRAY8, AIF_COMPRESSION_NONE, 1, 1, {})
    ELSE IF name = "short" THEN <<65, 73, 70>>
    ELSE NoFile

\* the batches info is given: the input file alone, or with another file
\* before or after it
BatchShapes ==
    {<<"input">>} \cup
    UNION {{<<"input", c>>, <<c, "input">>} : c \in {"good", "short", "missing"}}

RECURSIVE Batch(_, _)
Batch(shape, f) ==
    IF shape = <<>> THEN <<>>
    ELSE <<IF Head(shape) = "input" THEN f ELSE Companion(Head(shape))>>
             \o Batch(Tail(shape), f)

InitFile ==
    /\ pc = "file"
    /\ \E f \in InputFiles, old \in {NoFile, StaleFile} :
           files = <<f, old, NoFile>>
    /\ ops = <<>>
    /\ NoRows /\ NoSums

\* run Len(ops) + 1 of the program reads files[k] and writes files[k + 1]
Run(k, name, arg, res, reports) ==
    /\ files' = [files EXCEPT ![k + 1] = res.out]
    /\ ops' = Append(ops, [name |-> name, arg |-> arg, outcome |-> res.outcome,
                           nread |-> res.nread, reports |-> reports])
    /\ UNCHANGED <<pc, rowvars, sumvars>>

\* aif-tools info <files>
Stage1Info(k) ==
    \E shape \in BatchShapes :
        LET r == stage1_info(Batch(shape, files[k]))
        IN  Run(k, "info", shape,
                [outcome |-> r.outcome, out |-> files[k + 1], nread |-> r.nread],
                r.reports)

Amounts == {-50, 7}

\* aif-tools brighten <amount> <in-file> <out-file>
Stage2Brighten(k) ==
    \E amount \in Amounts :
        \E down \in brighten_choices(amount, files[k]) :
            Run(k, "brighten", amount,
                stage2_brighten(amount, files[k], files[k + 1], down), <<>>)

\* aif-tools convert-color <color-format> <in-file> <out-file>
Stage3ConvertColor(k) ==
    \E color \in {"gray8", "rgb8"} :
        Run(k, "convert-color", color,
            stage3_convert_color(color, files[k], files[k + 1]), <<>>)

\* aif-tools decompress <in-file> <out-file>
Stage4Decompress(k) ==
    Run(k, "decompress", "", stage4_decompress(files[k], files[k + 1]), <<>>)

\* aif-tools compress <in-file> <out-file>
Stage5Compress(k) ==
    Run(k, "compress", "", stage5_compress(files[k], files[k + 1]), <<>>)

\* one run of the program on the input file
Info          == ops = <<>> /\ Stage1Info(1)
Brighten      == ops = <<>> /\ Stage2Brighten(1)
ConvertColor  == ops = <<>> /\ Stage3ConvertColor(1)
Decompress    == ops = <<>> /\ Stage4Decompress(1)
Compress      == ops = <<>> /\ Stage5Compress(1)

NextFile == Info \/ Brighten \/ ConvertColor \/ Decompress \/ Compress

SpecFile == InitFile /\ [][NextFile]_vars

(***************************************************************************)
(* Compress, then decompress what it wrote: two runs of the program, on    *)
(* well-formed uncompressed files, from 1 x 1 images to a wide one.        *)
(***************************************************************************)
PlainFile(pixels, format, w, h, F) ==
    FaultyFile(pixels, format, AIF_COMPRESSION_NONE, w, h, F)

InitPlain ==
    /\ pc = "file"
    /\ \E format \in {AIF_FMT_RGB8, AIF_FMT_GRAY8},
          dims \in (1..MaxDim) \X (1..MaxDim), F \in SUBSET {"checksum"} :
          \E pixels \in Images(dims[1], dims[2], bytes_per_pixel(format)) :
              files = <<PlainFile(pixels, format, dims[1], dims[2], F),
                        NoFile, NoFile>>
    /\ ops = <<>>
    /\ NoRows /\ NoSums

InitWideFile ==
    /\ pc = "file"
    /\ \E w \in MinWide..MaxWide :
          files = <<PlainFile(WideRow(w), AIF_FMT_RGB8, w, 1, {}),
                    NoFile, NoFile>>
    /\ ops = <<>>
    /\ NoRows /\ NoSums

CompressFirst == ops = <<>> /\ Stage5Compress(1)

DecompressNext ==
    /\ Len(ops) = 1 /\ ops[1].name = "compress" /\ ops[1].outcome = "ok"
    /\ Stage4Decompress(2)

NextRoundTrip == CompressFirst \/ DecompressNext

SpecRoundTrip == (InitPlain \/ InitWideFile) /\ [][NextRoundTrip]_vars

SpecPlain == InitPlain /\ [][NextRoundTrip]_vars

(***************************************************************************)
(* The block format, read independently of the decoder: the blocks of a    *)
(* compressed row in order.  A repeat block is [count][pixel], a literal   *)
(* block [0][count][count pixels].  first is the number of pixels the      *)
(* blocks before it hold, need the bytes the block needs after its tag     *)
(* (and count byte), fits whether they lie within the declared length,     *)
(* nocount whether a literal tag is the last byte, with no count byte.     *)
(* Reading stops after the first block that does not fit.                  *)
(***************************************************************************)
RECURSIVE BlocksFrom(_, _, _, _, _)
BlocksFrom(c, len, n, at, first) ==
    IF at >= len
    THEN <<>>
    ELSE IF At(c, at) # 0
    THEN LET fits == at + 1 + n <= len
             b == [kind |-> "repeat", count |-> At(c, at), first |-> first,
                   fits |-> fits, nocount |-> FALSE,
                   pixels |-> IF fits THEN Slice(c, at + 1, n) ELSE <<>>]
         IN  IF fits
             THEN <<b>> \o BlocksFrom(c, len, n, at + 1 + n, first + b.count)
             ELSE <<b>>
    ELSE IF at + 1 >= len
    THEN <<[kind |-> "literal", count |-> 0, first |-> first, fits |-> FALSE,
            nocount |-> TRUE, pixels |-> <<>>]>>
    ELSE LET cnt  == At(c, at + 1)
             fits == at + 2 + cnt * n <= len
             b == [kind |-> "literal", count |-> cnt, first |-> first,
                   fits |-> fits, nocount |-> FALSE,
                   pixels |-> IF fits THEN Slice(c, at + 2, cnt * n) ELSE <<>>]
         IN  IF fits
             THEN <<b>> \o BlocksFrom(c, len, n, at + 2 + cnt * n, first + cnt)
             ELSE <<b>>

Blocks(c, len, n) == BlocksFrom(c, len, n, 0, 0)

\* pixel i (from 0) of a raw row
Pixel(buf, n, i) == Slice(buf, i * n, n)

RECURSIVE SumCounts(_)
SumCounts(bs) == IF bs = <<>> THEN 0 ELSE Head(bs).count + SumCounts(Tail(bs))

\* C3 as stated: the GRAY8 row [10,10,10,50] encodes to 03 0A 00 32.
C3_Original ==
    (pc = "packed" /\ origin = "row" /\ bpp = 1 /\ row = <<10, 10, 10, 50>>)
        => comp = <<3, 10, 0, 50>>

\* C3 amended: the GRAY8 row [10,10,10,50] encodes to exactly 03 0A 00 01 32:
\* the repeat block [3][0A], then the literal block [0][1][32] with its count.
C3_EncodesScenario ==
    (pc = "packed" /\ origin = "row" /\ bpp = 1 /\ row = <<10, 10, 10, 50>>)
        => (comp = <<3, 10, 0, 1, 50>> /\ row_len = 5)

C3_Witness ==
    /\ pc = "packed" /\ origin = "row" /\ bpp = 1 /\ width = 4
    /\ row = <<10, 10, 10, 50>>

\* C4 as stated: 03 0A 00 32 with declared length 4 decodes, for width 4 and
\* bpp 1, to [10,10,10,50].
C4_Original ==
    (/\ pc = "done" /\ origin = "stream" /\ bpp = 1 /\ width = 4
     /\ comp = <<3, 10, 0, 50>> /\ row_len = 4)
        => (dec.ok /\ dec.out = <<10, 10, 10, 50>>)

\* C4 amended: 03 0A 00 01 32 with declared length 5 decodes, for width 4 and
\* bpp 1, to [10,10,10,50]; the four bytes 03 0A 00 32 are rejected.
C4_DecodesScenario ==
    (pc = "done" /\ origin = "stream" /\ bpp = 1 /\ width = 4)
        => /\ (comp = <<3, 10, 0, 1, 50>> /\ row_len = 5)
                => (dec.ok /\ dec.out = <<10, 10, 10, 50>>)
           /\ (comp = <<3, 10, 0, 50>> /\ row_len = 4) => ~dec.ok

C4_Witness ==
    /\ pc = "done" /\ origin = "stream" /\ bpp = 1 /\ width = 4
    /\ comp = <<3, 10, 0, 1, 50>> /\ row_len = 5
    /\ dec.ok

\* C1: for a row of any width of 1 or more and bpp 1 or 3, decompress_row on
\* the bytes and the length compress_row returns succeeds and writes the
\* row back.
C1_RowRoundTrip ==
    (pc = "done" /\ origin = "row") => (dec.ok /\ dec.out = row)

CeilDiv(a, b) == (a + b - 1) \div b

AllSame(buf, w, n) == \A i \in 1..(w - 1) : Pixel(buf, n, i) = Pixel(buf, n, 0)

AdjacentDistinct(buf, w, n) ==
    \A i \in 0..(w - 2) : Pixel(buf, n, i) # Pixel(buf, n, i + 1)

RECURSIVE BlockPixels(_)
BlockPixels(bs) ==
    IF bs = <<>> THEN <<>> ELSE Head(bs).pixels \o BlockPixels(Tail(bs))

Encoded == pc \in {"packed", "done"} /\ origin = "row"

IsolatedPair(buf, w, n, i) ==
    /\ i + 1 < w
    /\ Pixel(buf, n, i) = Pixel(buf, n, i + 1)
    /\ i > 0 => Pixel(buf, n, i - 1) # Pixel(buf, n, i)
    /\ i + 2 < w => Pixel(buf, n, i + 2) # Pixel(buf, n, i)

\* C7: two equal pixels that differ from the pixel before and the pixel
\* after them are encoded as one repeat block of count 2 that starts at the
\* first of the two, whatever surrounds them.
C7_IsolatedPair ==
    Encoded =>
        LET B == Blocks(comp, Len(comp), bpp)
        IN  \A i \in 0..(width - 2) :
                IsolatedPair(row, width, bpp, i) =>
                    \E k \in 1..Len(B) :
                        /\ B[k].kind = "repeat" /\ B[k].fits
                        /\ B[k].count = 2
                        /\ B[k].first = i
                        /\ B[k].pixels = Pixel(row, bpp, i)

C7_Witness ==
    /\ Encoded /\ width >= 4 /\ bpp = 3
    /\ \E i \in 1..(width - 3) : IsolatedPair(row, width, bpp, i)

Decoded == pc = "done" /\ origin = "stream"

\* a literal block whose count byte is present and 0
ZeroLiteral(b) == b.kind = "literal" /\ ~b.nocount /\ b.count = 0

\* the pixels the blocks that fit decode to
RECURSIVE DecodedPixels(_)
DecodedPixels(bs) ==
    IF bs = <<>> THEN 0
    ELSE (IF Head(bs).fits THEN Head(bs).count ELSE 0) + DecodedPixels(Tail(bs))

\* C9 as stated: a compressed row (a) with a literal block of count 0, or
\* (b) with a block that needs more bytes than the declared length leaves,
\* or (c) whose blocks decode to a total other than width * bpp bytes, is
\* rejected.
C9_Original ==
    Decoded =>
        LET B == Blocks(comp, row_len, bpp)
        IN  (\/ \E k \in 1..Len(B) : ZeroLiteral(B[k])
             \/ \E k \in 1..Len(B) : ~B[k].fits
             \/ DecodedPixels(B) # width)
                => ~dec.ok

\* a block that starts while the output row is not yet full
Reached(b) == b.first < width

\* C9 amended: decompress_row rejects a compressed row when, among the
\* blocks that start before the output row is full, (a) a literal block
\* declares count 0, or (b) a block needs more bytes than remain within the
\* declared length, or (c) a block would write past width * bpp bytes, or the
\* payload is exhausted before the row is filled.  Bytes after the block that
\* fills the row are not looked at.
C9_RejectsMalformed ==
    Decoded =>
        LET B == Blocks(comp, row_len, bpp)
        IN  (\/ \E k \in 1..Len(B) : Reached(B[k]) /\ ZeroLiteral(B[k])
             \/ \E k \in 1..Len(B) : Reached(B[k]) /\ ~B[k].fits
             \/ \E k \in 1..Len(B) :
                    Reached(B[k]) /\ B[k].first + B[k].count > width
             \/ DecodedPixels(B) < width)
                => ~dec.ok

\* the converse, to see that the four cases are all the decoder rejects
RejectsOnlyMalformed ==
    Decoded =>
        LET B == Blocks(comp, row_len, bpp)
        IN  ~dec.ok =>
            (\/ \E k \in 1..Len(B) : Reached(B[k]) /\ ZeroLiteral(B[k])
             \/ \E k \in 1..Len(B) : Reached(B[k]) /\ ~B[k].fits
             \/ \E k \in 1..Len(B) :
                    Reached(B[k]) /\ B[k].first + B[k].count > width
             \/ DecodedPixels(B) < width)

C9_Witness ==
    /\ Decoded /\ ~dec.ok /\ bpp = 1 /\ width = 2
    /\ LET B == Blocks(comp, row_len, bpp)
       IN  /\ Len(B) = 2
           /\ B[1].kind = "repeat" /\ B[1].count = 1
           /\ ZeroLiteral(B[2])

\* C8: the checksum of a file of 6 bytes or more does not depend on the two
\* bytes at offsets 4 and 5: it is the same whatever they hold, and so the
\* checksum computed again after it was stored there, little-endian, is the
\* checksum that was stored.
C8_ChecksumFixedPoint ==
    /\ pc = "verified" =>
          /\ ck_calc = ck_stored
          /\ At(ck_file, AIF_CHECKSUM_OFFSET) = ck_stored % 256
          /\ At(ck_file, AIF_CHECKSUM_OFFSET + 1) = ck_stored \div 256
    /\ pc = "computed" =>
          \A b4, b5 \in {0, 1, 255} :
              compute_checksum([ck_file EXCEPT ![5] = b4, ![6] = b5],
                               Len(ck_file)) = ck_stored

C8_Witness ==
    /\ pc = "verified"
    /\ Len(ck_file) > 6
    /\ ck_stored % 256 \notin {0, 3, 200}
    /\ ck_stored \div 256 \notin {0, 3, 200}

\* a structurally valid uncompressed file with all its pixel data
ValidPlain(f) ==
    /\ f # NoFile /\ Len(f) >= AIF_HEADER_SIZE
    /\ validate_header(f, "dims_first") = "ok"
    /\ At(f, AIF_COMPRESSION_OFFSET) = AIF_COMPRESSION_NONE
    /\ Len(f) >= AIF_HEADER_SIZE
           + read_le_u32(f, AIF_WIDTH_OFFSET) * read_le_u32(f, AIF_HEIGHT_OFFSET)
               * bytes_per_pixel(At(f, AIF_PXL_FMT_OFFSET))

PixelBytes(f) ==
    read_le_u32(f, AIF_WIDTH_OFFSET) * read_le_u32(f, AIF_HEIGHT_OFFSET)
        * bytes_per_pixel(At(f, AIF_PXL_FMT_OFFSET))

\* C2: for a structurally valid uncompressed file with all its pixel data,
\* of any width and height, compress succeeds, decompress succeeds on what it
\* wrote, and the file decompress writes has the magic, pixel format, width,
\* height and pixel data offset of the first file, compression NONE, and its
\* width * height * bpp pixel bytes.
C2_FileRoundTrip ==
    (pc = "file" /\ Len(ops) >= 1 /\ ops[1].name = "compress"
        /\ ValidPlain(files[1])) =>
        /\ ops[1].outcome = "ok"
        /\ Len(ops) = 2 /\ ops[2].name = "decompress" =>
              /\ ops[2].outcome = "ok"
              /\ files[3] # NoFile
              /\ Len(files[3]) = AIF_HEADER_SIZE + PixelBytes(files[1])
              /\ Slice(files[3], 0, 4) = Slice(files[1], 0, 4)
              /\ Slice(files[3], AIF_PXL_FMT_OFFSET, 1)
                     = Slice(files[1], AIF_PXL_FMT_OFFSET, 1)
              /\ At(files[3], AIF_COMPRESSION_OFFSET) = AIF_COMPRESSION_NONE
              /\ Slice(files[3], AIF_WIDTH_OFFSET, 12)
                     = Slice(files[1], AIF_WIDTH_OFFSET, 12)
              /\ Slice(files[3], AIF_HEADER_SIZE, PixelBytes(files[1]))
                     = Slice(files[1], AIF_HEADER_SIZE, PixelBytes(files[1]))

\* a file that starts with the four bytes "XIF\0"
XIFInput(f) == f # NoFile /\ Len(f) >= 4 /\ Slice(f, 0, 4) = MagicXIF

Mutating == {"brighten", "convert-color", "decompress", "compress"}

\* C10 as stated: on a file that starts with "XIF\0", every operation ends
\* with the invalid-magic outcome, having read no byte beyond the first 16.
C10_Original ==
    (pc = "file" /\ Len(ops) = 1 /\ XIFInput(files[1])) =>
        (ops[1].outcome = "invalid_magic" /\ ops[1].nread <= 16)

\* C10 amended: on a file of AIF_HEADER_SIZE (20) bytes or more that starts
\* with "XIF\0", brighten, convert-color, decompress and compress exit at the
\* magic check, having read the 20 bytes of the header and no more; on a
\* shorter one they exit with unexpected EOF.  info never ends with the
\* invalid-magic outcome: given the file alone it reports the magic as
\* invalid, reads the whole file for the checksum, and ends normally.
C10_InvalidMagic ==
    (pc = "file" /\ Len(ops) = 1 /\ XIFInput(files[1])) =>
        /\ (ops[1].name \in Mutating /\ Len(files[1]) >= AIF_HEADER_SIZE) =>
              /\ ops[1].outcome = "invalid_magic"
              /\ ops[1].nread = AIF_HEADER_SIZE
        /\ (ops[1].name \in Mutating /\ Len(files[1]) < AIF_HEADER_SIZE) =>
              /\ ops[1].outcome = "unexpected_eof"
              /\ ops[1].nread = Len(files[1])
        /\ ops[1].name = "info" => ops[1].outcome # "invalid_magic"
        /\ (/\ ops[1].name = "info" /\ ops[1].arg = <<"input">>
            /\ Len(files[1]) >= AIF_HEADER_SIZE) =>
              /\ ops[1].outcome = "ok"
              /\ Len(ops[1].reports) = 1
              /\ ~ops[1].reports[1].magic_ok
              /\ ops[1].nread = Len(files[1])

C10_Witness ==
    /\ pc = "file" /\ Len(ops) = 1 /\ XIFInput(files[1])
    /\ Len(files[1]) > AIF_HEADER_SIZE
    /\ ops[1].name = "compress"
    /\ ops[1].outcome = "invalid_magic"
    /\ files[2] = StaleFile

\* the rules of the header a file of AIF_HEADER_SIZE bytes or more violates
HeaderViolations(f) ==
    {r \in {"magic", "format", "compression", "width", "height"} :
        \/ r = "magic" /\ Slice(f, 0, 4) # MagicAIF
        \/ r = "format" /\ At(f, AIF_PXL_FMT_OFFSET) \notin {1, 2}
        \/ r = "compression" /\ At(f, AIF_COMPRESSION_OFFSET) \notin {0, 1}
        \/ r = "width" /\ read_le_u32(f, AIF_WIDTH_OFFSET) = 0
        \/ r = "height" /\ read_le_u32(f, AIF_HEIGHT_OFFSET) = 0}

\* the first run of the program, on an input file with a whole header
FirstRun == ops = <<>> /\ Len(ops') = 1 /\ Len(files[1]) >= AIF_HEADER_SIZE

\* C11: a mutating operation on a file whose header violates a rule (magic,
\* pixel format, compression, width > 0, height > 0) does not end normally
\* and leaves the output path as it was.
C11_HeaderViolationsAbort ==
    [][(FirstRun /\ ops'[1].name \in Mutating
            /\ HeaderViolations(files[1]) # {})
          => (ops'[1].outcome # "ok" /\ files'[2] = files[2])]_vars

\* what holds of C11: every case but decompress on a header whose only
\* violation is the compression field, which stage4_decompress never checks
HeaderViolationsAbortButOne ==
    [][(FirstRun /\ ops'[1].name \in Mutating
            /\ HeaderViolations(files[1]) # {}
            /\ ~(ops'[1].name = "decompress"
                    /\ HeaderViolations(files[1]) = {"compression"}))
          => (ops'[1].outcome \in {"invalid_magic", "invalid_format",
                                   "invalid_compression", "invalid_dims"}
              /\ files'[2] = files[2])]_vars

\* the runs of a mutating operation that ended normally
DoneMutating == {i \in 1..Len(ops) : ops[i].name \in Mutating /\ ops[i].outcome = "ok"}

\* C12: after a mutating operation ends normally, the two bytes stored
\* little-endian at offset 4 of its output file are compute_checksum taken over
\* the whole of that file, header and all content written.
C12_OutputChecksum ==
    \A i \in DoneMutating :
        LET out == files[i + 1]
        IN  /\ Len(out) >= AIF_HEADER_SIZE
            /\ read_le_u16(out, AIF_CHECKSUM_OFFSET) = compute_checksum(out, Len(out))

\* a compress run ended normally on an image of more than one row whose
\* content changes the checksum of the header
C12_Witness ==
    /\ Len(ops) = 1 /\ ops[1].name = "compress" /\ ops[1].outcome = "ok"
    /\ read_le_u32(files[2], AIF_HEIGHT_OFFSET) = 2
    /\ Len(files[2]) > AIF_HEADER_SIZE
    /\ compute_checksum(files[2], Len(files[2]))
           # compute_checksum(files[2], AIF_HEADER_SIZE)

\* the files of the batch an info run was given (the input file is files[i])
BatchOf(i) == Batch(ops[i].arg, files[i])

\* an invalid file: one that cannot be opened, one shorter than the 16 bytes
\* the header fields span, one with a bad header field or a checksum mismatch
InvalidFile(f) ==
    \/ f = NoFile
    \/ Len(f) < AIF_PXL_OFFSET_OFFSET
    \/ HeaderViolations(f) # {}
    \/ read_le_u16(f, AIF_CHECKSUM_OFFSET) # compute_checksum(f, Len(f))

\* stage1_info reports the files in order: file k of the batch is reported
\* exactly when the run got as far as its report
Reported(i, k) == k <= Len(ops[i].reports)

\* C13: when info is given a batch of files, an invalid file (bad header
\* fields, checksum mismatch, file shorter than the header, unopenable file)
\* never aborts the run: every later file of the batch is still reported.
C13_BatchSurvivesInvalidFile ==
    \A i \in 1..Len(ops) :
        ops[i].name = "info" =>
            \A j \in 1..Len(BatchOf(i)) :
                InvalidFile(BatchOf(i)[j]) =>
                    \A k \in (j + 1)..Len(BatchOf(i)) : Reported(i, k)

\* what holds of C13: a file that opens and holds AIF_HEADER_SIZE bytes never
\* ends the run, whatever its header fields and checksum; the run ends at the
\* first file that cannot be opened or is shorter, reporting none after it
InfoEndsAtFirstShortFile ==
    \A i \in 1..Len(ops) :
        ops[i].name = "info" =>
            LET batch == BatchOf(i)
                short == {j \in 1..Len(batch) :
                            batch[j] = NoFile \/ Len(batch[j]) < AIF_HEADER_SIZE}
            IN  IF short = {}
                THEN ops[i].outcome = "ok" /\ Len(ops[i].reports) = Len(batch)
                ELSE /\ ops[i].outcome \in {"open_failed", "unexpected_eof"}
                     /\ \A j \in short : Len(ops[i].reports) < j
                     /\ \E j \in short : Len(ops[i].reports) = j - 1

\* the outcomes of a failed decode: malformed RLE data, or a short read of the
\* header, a row length prefix, a row payload or the raw pixel block
DecodeFailures == {"invalid_data", "unexpected_eof"}

\* C14: when the decode fails with malformed RLE data or a short read, the
\* mutating operation ends before the output file is opened: the output path
\* holds after the run what it held before (nothing, or the file that was there).
C14_FailedDecodeLeavesOutput ==
    [][(ops = <<>> /\ Len(ops') = 1 /\ ops'[1].name \in Mutating
            /\ ops'[1].outcome \in DecodeFailures)
          => files'[2] = files[2]]_vars

\* a mutating operation has failed past the header: on malformed RLE data
\* with a file at the output path, or on a short read with none
C14_Witness ==
    /\ Len(ops) = 1 /\ ops[1].name \in Mutating
    /\ \/ ops[1].outcome = "invalid_data" /\ files[2] = StaleFile
          /\ ops[1].nread > AIF_HEADER_SIZE
       \/ ops[1].outcome = "unexpected_eof" /\ files[2] = NoFile
          /\ ops[1].nread > AIF_HEADER_SIZE

\* the load of an uncompressed image: width*height*bpp raw bytes copied from
\* behind the header, or the short read when the file holds fewer
RawLoad(f, w, h, n) ==
    IF Len(f) >= AIF_HEADER_SIZE + w * h * n
    THEN [outcome |-> "ok", pixels |-> Slice(f, AIF_HEADER_SIZE, w * h * n),
          nread |-> AIF_HEADER_SIZE + w * h * n]
    ELSE [outcome |-> "unexpected_eof", pixels |-> <<>>, nread |-> Len(f)]

\* the load the compression field of the header of f calls for
LoadByCompression(f) ==
    LET w == read_le_u32(f, AIF_WIDTH_OFFSET)
        h == read_le_u32(f, AIF_HEIGHT_OFFSET)
        n == bytes_per_pixel(At(f, AIF_PXL_FMT_OFFSET))
    IN  IF At(f, AIF_COMPRESSION_OFFSET) = AIF_COMPRESSION_NONE
        THEN RawLoad(f, w, h, n)
        ELSE aif_decompress_image(f, w, h, n)

\* run i took its pixels from files[i] the way ld does: it failed as ld
\* fails, or went on to write its output having read what ld reads
LoadedAs(i, ld) ==
    /\ ops[i].outcome = ld.outcome
    /\ ops[i].nread = ld.nread

\* the runs of the operations in Names on a file whose header is valid
ValidRuns(Names) ==
    {i \in 1..Len(ops) : /\ ops[i].name \in Names
                         /\ Len(files[i]) >= AIF_HEADER_SIZE
                         /\ HeaderViolations(files[i]) = {}}

\* C15: every mutating operation loads the pixels as the compression field of
\* the header says: compression NONE copies width*height*bpp raw bytes, and
\* only compression RLE reads length-prefixed rows through the row decoder;
\* brighten, convert-color, decompress and compress alike.
C15_LoadByCompression ==
    \A i \in ValidRuns(Mutating) : LoadedAs(i, LoadByCompression(files[i]))

\* what holds of C15: brighten, convert-color and compress load by the
\* compression field; decompress reads rows through the row decoder whatever
\* the field says
LoadByCompressionButDecompress ==
    /\ \A i \in ValidRuns(Mutating \ {"decompress"}) :
           LoadedAs(i, LoadByCompression(files[i]))
    /\ \A i \in ValidRuns({"decompress"}) :
           LET f == files[i]
           IN  LoadedAs(i, aif_decompress_image(f,
                               read_le_u32(f, AIF_WIDTH_OFFSET),
                               read_le_u32(f, AIF_HEIGHT_OFFSET),
                               bytes_per_pixel(At(f, AIF_PXL_FMT_OFFSET))))

\* C16: for every row of width >= 1 and bpp 1 or 3 the output cursor of
\* compress_row never exceeds width * (bpp + 2), the size of the buffer
\* aif_write_compressed_rows allocates.  The cursor only grows during the
\* encode, so its value at the end, the length of the compressed row, bounds
\* it at every point.
C16_CursorWithinBuffer ==
    Encoded => Len(comp) <= max_row(width, bpp)

\* a row has been encoded that holds a literal block of a single pixel, a
\* run of two, and a run of 256 that leaves a repeat block of count 1 after
\* the block of count 255
C16_Witness ==
    /\ Encoded
    /\ LET bs == Blocks(comp, Len(comp), bpp)
       IN  /\ \E k \in 1..Len(bs) : bs[k].kind = "literal" /\ bs[k].count = 1
           /\ \E k \in 1..Len(bs) : bs[k].kind = "repeat" /\ bs[k].count = 2
           /\ \E k \in 1..(Len(bs) - 1) :
                  /\ bs[k].kind = "repeat" /\ bs[k].count = 255
                  /\ bs[k + 1].kind = "repeat" /\ bs[k + 1].count = 1
                  /\ bs[k + 1].pixels = bs[k].pixels
                  /\ k + 1 = Len(bs) \/ bs[k + 2].pixels # bs[k].pixels

\* a row of one pixel fills the buffer to its last byte
BufferFilled ==
    Encoded /\ width = 1 /\ Len(comp) = max_row(width, bpp)

\* C17: for any compressed bytes and declared row_len, decompress_row reads
\* comp only at indexes below row_len and writes out_row only at indexes below
\* row_bytes, whether the decode succeeds or fails.  dec.rd is one more than
\* the highest index read and Len(dec.out) one more than the highest index
\* written; neither ever goes down during the decode.
C17_DecodeWithinBounds ==
    pc = "done" =>
        /\ dec.rd <= row_len
        /\ dec.cp <= row_len
        /\ Len(dec.out) <= width * bpp

\* a decode that failed having read the declared row to its last byte and
\* written part of the output row
C17_Witness ==
    /\ pc = "done" /\ origin = "stream" /\ ~dec.ok
    /\ row_len > 0 /\ dec.rd = row_len
    /\ Len(dec.out) > 0 /\ Len(dec.out) < width * bpp

\* a decode that succeeded having read the declared row to its last byte
DecodeReadsWholeRow ==
    /\ pc = "done" /\ origin = "stream" /\ dec.ok
    /\ row_len > 0 /\ dec.rd = row_len /\ Len(dec.out) = width * bpp

\* comp_len of row r (from 0) of the image: what compress_row returns for it
comp_len_of(pixels, w, n, r) ==
    Len(compress_row(Slice(pixels, r * w * n, w * n), w, n))

\* where the record of row r starts in the rows written, each row being its
\* 2-byte prefix and its comp_len payload bytes
RECURSIVE row_start(_, _, _, _)
row_start(pixels, w, n, r) ==
    IF r = 0 THEN 0
    ELSE row_start(pixels, w, n, r - 1) + 2 + comp_len_of(pixels, w, n, r - 1)

\* the compress runs that ended normally on an uncompressed file
CompressedPlain ==
    {i \in 1..Len(ops) : /\ ops[i].name = "compress" /\ ops[i].outcome = "ok"
                         /\ ValidPlain(files[i])}

\* C18: for every row aif_write_compressed_rows writes, the 2-byte
\* little-endian length prefix is the number of payload bytes written after
\* it, whatever the width (rows of more than 65535 compressed bytes too), and
\* the total it returns is the sum over the rows of 2 + payload length.
C18_PrefixIsPayloadLength ==
    \A i \in CompressedPlain :
        LET f      == files[i]
            w      == read_le_u32(f, AIF_WIDTH_OFFSET)
            h      == read_le_u32(f, AIF_HEIGHT_OFFSET)
            n      == bytes_per_pixel(At(f, AIF_PXL_FMT_OFFSET))
            pixels == Slice(f, AIF_HEADER_SIZE, w * h * n)
            rows   == aif_write_compressed_rows(pixels, w, h, n)
        IN  /\ files[i + 1] = Slice(files[i + 1], 0, AIF_HEADER_SIZE) \o rows.bytes
            /\ rows.total = row_start(pixels, w, n, h)
            /\ Len(rows.bytes) = rows.total
            /\ \A r \in 0..(h - 1) :
                   read_le_u16(rows.bytes, row_start(pixels, w, n, r))
                       = comp_len_of(pixels, w, n, r)

\* what holds of C18: the prefix is the payload length modulo 65536, and the
\* total is the sum over the rows of 2 + payload length
PrefixIsPayloadLengthMod ==
    \A i \in CompressedPlain :
        LET f      == files[i]
            w      == read_le_u32(f, AIF_WIDTH_OFFSET)
            h      == read_le_u32(f, AIF_HEIGHT_OFFSET)
            n      == bytes_per_pixel(At(f, AIF_PXL_FMT_OFFSET))
            pixels == Slice(f, AIF_HEADER_SIZE, w * h * n)
            rows   == aif_write_compressed_rows(pixels, w, h, n)
        IN  /\ files[i + 1] = Slice(files[i + 1], 0, AIF_HEADER_SIZE) \o rows.bytes
            /\ rows.total = row_start(pixels, w, n, h)
            /\ Len(rows.bytes) = rows.total
            /\ \A r \in 0..(h - 1) :
                   read_le_u16(rows.bytes, row_start(pixels, w, n, r))
                       = comp_len_of(pixels, w, n, r) % U16

\* the pixels (from 0) of the row that block b of the compressed row holds
Covers(b) == b.first..(b.first + b.count - 1)

\* pixel q of the row is part of a run of 2 or more identical pixels
InRun(q) ==
    \/ q + 1 < width /\ Pixel(row, bpp, q) = Pixel(row, bpp, q + 1)
    \/ q >= 1 /\ Pixel(row, bpp, q) = Pixel(row, bpp, q - 1)

\* C19: in the output of compress_row no pixel of a literal block is
\* byte-identical to the pixel that follows it in the row: every maximal run
\* of 2 or more identical pixels is emitted as repeat blocks only, and a
\* literal block directly follows another literal block only when the one
\* before has count 255.
C19_LiteralsHoldNoRun ==
    Encoded =>
        LET bs == Blocks(comp, Len(comp), bpp)
        IN  /\ SumCounts(bs) = width
            /\ \A k \in 1..Len(bs) :
                   /\ bs[k].fits
                   /\ bs[k].kind = "literal" =>
                          /\ bs[k].pixels
                                 = Slice(row, bs[k].first * bpp, bs[k].count * bpp)
                          /\ \A q \in Covers(bs[k]) : ~InRun(q)
                   /\ (k > 1 /\ bs[k].kind = "literal"
                           /\ bs[k - 1].kind = "literal") => bs[k - 1].count = 255

\* a row has been encoded in which a literal block stands between two runs
C19_Witness ==
    /\ Encoded
    /\ LET bs == Blocks(comp, Len(comp), bpp)
       IN  \E k \in 2..(Len(bs) - 1) :
               /\ bs[k].kind = "literal"
               /\ bs[k - 1].kind = "repeat" /\ bs[k - 1].count >= 2
               /\ bs[k + 1].kind = "repeat" /\ bs[k + 1].count >= 2

\* a row has been encoded in which a literal block follows a literal block
LiteralAfterLiteral ==
    /\ Encoded
    /\ LET bs == Blocks(comp, Len(comp), bpp)
       IN  \E k \in 2..Len(bs) :
               bs[k].kind = "literal" /\ bs[k - 1].kind = "literal"

\* the bytes the blocks bs take in the compressed row
RECURSIVE BlockBytes(_, _)
BlockBytes(bs, n) ==
    IF bs = <<>> THEN 0
    ELSE (IF Head(bs).kind = "repeat" THEN 1 + n ELSE 2 + Head(bs).count * n)
             + BlockBytes(Tail(bs), n)

\* the first k blocks of the declared row are whole, hold a pixel or more
\* each, and hold width pixels together: they fill the row exactly
FillsRow(bs, k) ==
    /\ \A j \in 1..k : bs[j].fits /\ bs[j].count > 0
    /\ SumCounts(SubSeq(bs, 1, k)) = width

\* C20 as stated: whenever decompress_row succeeds the compressed cursor is at
\* row_len; a payload that fills the row and is followed by extra bytes
\* within the declared length is rejected.
C20_Original ==
    (pc = "done" /\ dec.ok) => dec.cp = row_len

\* C20 as amended: decompress_row succeeds exactly when some first blocks of
\* the declared row fill the output row exactly; the compressed cursor is then
\* at the end of the block that filled it, at most row_len, and the bytes of
\* the declared row behind it are not read.  After compress_row the cursor is
\* at row_len.
C20_SuccessStopsAtFullRow ==
    pc = "done" =>
        LET bs == Blocks(comp, row_len, bpp)
            K  == {k \in 1..Len(bs) : FillsRow(bs, k)}
        IN  /\ dec.ok <=> K # {}
            /\ dec.ok =>
                   /\ Len(dec.out) = width * bpp
                   /\ \E k \in K : dec.cp = BlockBytes(SubSeq(bs, 1, k), bpp)
                   /\ dec.cp <= row_len /\ dec.rd = dec.cp
                   /\ origin = "row" => dec.cp = row_len

\* a decode has succeeded with bytes of the declared row left behind the
\* block that filled the output row
C20_Witness ==
    /\ pc = "done" /\ origin = "stream" /\ dec.ok
    /\ Len(dec.out) = width * bpp
    /\ dec.cp < row_len

====
